---- MODULE Spec2Model ----
(***************************************************************************)
(* Static analysis of one function component (analyzeReactComponent) and   *)
(* assembly of its data-flow graph (buildGraphFromMappingResult and the    *)
(* earlier buildGraphFromAnalysis).                                        *)
(*                                                                         *)
(* JavaScript strings are sequences of one-character strings, so that      *)
(* startsWith, endsWith, includes, toLowerCase and the regular             *)
(* expressions of the code are computed rather than assumed.  Identities   *)
(* built by template literals such as `${kind}-${item.id}` are sequences   *)
(* of tokens joined by the token "-".                                      *)
(***************************************************************************)
EXTENDS Integers, Sequences, FiniteSets, TLC

VARIABLES src, analysis, layout, given, builder

vars == <<src, analysis, layout, given, builder>>

\* ------------------------------------------------------------------------
\* Bounds of the explored inputs
\* ------------------------------------------------------------------------
MaxStmts == 3

MaxElems == 3

MaxExports == 2

\* ------------------------------------------------------------------------
\* Strings
\* ------------------------------------------------------------------------
Null == <<"null">>

Undefined == <<"undefined">>

NonIdent == <<"non-identifier">>

UpperCase == <<"A", "B", "C", "D", "E", "F", "G", "H", "I", "J", "K", "L", "M", "N", "O", "P", "Q", "R", "S", "T", "U", "V", "W", "X", "Y", "Z">>

LowerCase == <<"a", "b", "c", "d", "e", "f", "g", "h", "i", "j", "k", "l", "m", "n", "o", "p", "q", "r", "s", "t", "u", "v", "w", "x", "y", "z">>

IsUpper(c) == \E i \in 1..26 : UpperCase[i] = c

ToLowerChar(c) == IF IsUpper(c) THEN LowerCase[CHOOSE i \in 1..26 : UpperCase[i] = c] ELSE c

ToLowerCase(s) == [i \in 1..Len(s) |-> ToLowerChar(s[i])]

StartsWith(s, p) == Len(p) <= Len(s) /\ SubSeq(s, 1, Len(p)) = p

EndsWith(s, p) == Len(p) <= Len(s) /\ SubSeq(s, Len(s) - Len(p) + 1, Len(s)) = p

Includes(s, p) == \E i \in 1..(Len(s) - Len(p) + 1) : SubSeq(s, i, i + Len(p) - 1) = p

Dash(a, b) == a \o <<"-">> \o b

Num(n) == <<ToString(n)>>

Range(s) == {s[i] : i \in 1..Len(s)}

\* Array.from(new Set(xs)): first occurrences, in order
RECURSIVE Dedupe(_)
Dedupe(xs) == IF xs = <<>> THEN <<>> ELSE LET init == Dedupe(SubSeq(xs, 1, Len(xs) - 1)) IN IF xs[Len(xs)] \in Range(init) THEN init ELSE Append(init, xs[Len(xs)])

\* Array.prototype.find over the outcomes of its predicate: the index of the
\* first TRUE, 0 for undefined
FindFirst(hits) ==
  IF \E i \in 1..Len(hits) : hits[i]
  THEN CHOOSE i \in 1..Len(hits) : hits[i] /\ \A j \in 1..(i - 1) : ~hits[j]
  ELSE 0

kUseState == <<"u", "s", "e", "S", "t", "a", "t", "e">>
kUseRef == <<"u", "s", "e", "R", "e", "f">>
kUseReducer == <<"u", "s", "e", "R", "e", "d", "u", "c", "e", "r">>
kUseEffect == <<"u", "s", "e", "E", "f", "f", "e", "c", "t">>
kUseLayoutEffect == <<"u", "s", "e", "L", "a", "y", "o", "u", "t", "E", "f", "f", "e", "c", "t">>
kUseCallback == <<"u", "s", "e", "C", "a", "l", "l", "b", "a", "c", "k">>
kUseMemo == <<"u", "s", "e", "M", "e", "m", "o">>
kZustand == <<"z", "u", "s", "t", "a", "n", "d">>
kReactQuery == <<"r", "e", "a", "c", "t", "-", "q", "u", "e", "r", "y">>
kCustom == <<"c", "u", "s", "t", "o", "m">>

cUseStore == <<"u", "s", "e", "S", "t", "o", "r", "e">>
cUseQuery == <<"u", "s", "e", "Q", "u", "e", "r", "y">>
cUseQueryStore == <<"u", "s", "e", "Q", "u", "e", "r", "y", "S", "t", "o", "r", "e">>
cLoadData == <<"l", "o", "a", "d", "D", "a", "t", "a">>

pkgReact == <<"r", "e", "a", "c", "t">>
pkgZustand == <<"z", "u", "s", "t", "a", "n", "d">>
pkgTanstack == <<"@", "t", "a", "n", "s", "t", "a", "c", "k", "/", "r", "e", "a", "c", "t", "-", "q", "u", "e", "r", "y">>
pkgBoth == <<".", "/", "z", "u", "s", "t", "a", "n", "d", "-", "r", "e", "a", "c", "t", "Q", "u", "e", "r", "y">>
pkgLocal == <<".", "/", "h", "o", "o", "k", "s">>

strUse == <<"u", "s", "e">>
strStore == <<"S", "t", "o", "r", "e">>
strZustand == <<"z", "u", "s", "t", "a", "n", "d">>
strReactQuery == <<"r", "e", "a", "c", "t", "Q", "u", "e", "r", "y">>
strTanstack == <<"@", "t", "a", "n", "s", "t", "a", "c", "k", "/", "r", "e", "a", "c", "t", "-", "q", "u", "e", "r", "y">>
strMutation == <<"m", "u", "t", "a", "t", "i", "o", "n">>
strQuery == <<"q", "u", "e", "r", "y">>
strRef == <<"R", "e", "f">>
strSet == <<"s", "e", "t">>
strMutate == <<"m", "u", "t", "a", "t", "e">>
strMutateAsync == <<"m", "u", "t", "a", "t", "e", "A", "s", "y", "n", "c">>
strGlobalSuffix == <<" ", "(", "g", "l", "o", "b", "a", "l", ")">>
strCallback == <<"c", "a", "l", "l", "b", "a", "c", "k">>

nCount == <<"c", "o", "u", "n", "t">>
nSetCount == <<"s", "e", "t", "C", "o", "u", "n", "t">>
nCountValue == <<"c", "o", "u", "n", "t", "V", "a", "l", "u", "e">>
nSetCountValue == <<"s", "e", "t", "C", "o", "u", "n", "t", "V", "a", "l", "u", "e">>
nInputRef == <<"i", "n", "p", "u", "t", "R", "e", "f">>
nInput == <<"i", "n", "p", "u", "t">>
nStore == <<"s", "t", "o", "r", "e">>
nOther == <<"o", "t", "h", "e", "r">>
nSetOther == <<"s", "e", "t", "O", "t", "h", "e", "r">>
nOnClick == <<"o", "n", "C", "l", "i", "c", "k">>
nApi == <<"a", "p", "i">>
nCurrent == <<"c", "u", "r", "r", "e", "n", "t">>
nInputRefValue == <<"i", "n", "p", "u", "t", "R", "e", "f", "V", "a", "l", "u", "e">>
nOtherRef == <<"o", "t", "h", "e", "r", "R", "e", "f">>
nApp == <<"A", "p", "p">>
nFoo == <<"F", "o", "o">>
nBar == <<"B", "a", "r">>

fileFoo == <<"F", "o", "o", ".", "t", "s", "x">>
fileBar == <<"B", "a", "r">>
fileBarTest == <<"B", "a", "r", ".", "t", "e", "s", "t", ".", "t", "s", "x">>
fileDir == <<"v", "1", ".", "2", "/", "F", "o", "o">>

\* ------------------------------------------------------------------------
\* analyzeReactComponent.ts: exports, primary component, hook classification
\* ------------------------------------------------------------------------

\* The parsed module (the output of parseSourceToAst), reduced to what the
\* analysis reads:
\*   imports  : import specifiers in order, [local, source]
\*   exports  : export declarations in order,
\*              [kind |-> "default", name]  (name = Null: no usable name)
\*              [kind |-> "named", name]
\*   fileName : Undefined, or the file name
\*   declName : the name the component function is declared with
\*   form     : "function" | "arrowBlock" | "arrowExpr"
\*   body     : the calls of the component body in traversal order
\*   jsx      : the markup elements of the body in source (pre-)order

\* collectImportMap: map[spec.local.name] = src, later entries overwrite
ImportSourceOf(imports, localName) ==
  LET hits == {i \in 1..Len(imports) : imports[i].local = localName}
  IN  IF hits = {} THEN Null
      ELSE imports[CHOOSE i \in hits : \A j \in hits : j <= i].source

\* collectExportedComponents
RECURSIVE collectExportedComponents(_)
collectExportedComponents(exports) ==
  IF exports = <<>> THEN [defaultExport |-> Null, namedExports |-> <<>>]
  ELSE LET info == collectExportedComponents(SubSeq(exports, 1, Len(exports) - 1))
           d == exports[Len(exports)]
       IN  IF d.kind = "default"
           THEN (IF d.name # Null THEN [info EXCEPT !.defaultExport = d.name] ELSE info)
           ELSE [info EXCEPT !.namedExports = Append(@, d.name)]

\* fileName.replace(/\.[^/.]+$/, "")
StripExtension(fileName) ==
  LET dots == {i \in 1..(Len(fileName) - 1) :
                 /\ fileName[i] = "."
                 /\ \A j \in (i + 1)..Len(fileName) : fileName[j] \notin {"/", "."}}
  IN  IF dots = {} THEN fileName
      ELSE SubSeq(fileName, 1, (CHOOSE i \in dots : TRUE) - 1)

\* variant: the named exports are consulted before the default export
pickPrimaryComponent_NamedFirst(exportInfo, fileName) ==
  IF Len(exportInfo.namedExports) = 1 THEN exportInfo.namedExports[1]
  ELSE IF exportInfo.defaultExport # Null THEN exportInfo.defaultExport
  ELSE IF Len(exportInfo.namedExports) > 0 THEN exportInfo.namedExports[1]
  ELSE Null

pickPrimaryComponent(exportInfo, fileName) ==
  IF exportInfo.defaultExport # Null THEN exportInfo.defaultExport
  ELSE IF Len(exportInfo.namedExports) = 1 THEN exportInfo.namedExports[1]
  ELSE LET base == StripExtension(fileName)
           matched == IF fileName # Undefined /\ fileName # <<>>
                      THEN FindFirst([i \in 1..Len(exportInfo.namedExports) |->
                                   exportInfo.namedExports[i] = base])
                      ELSE 0
       IN  IF matched # 0 THEN exportInfo.namedExports[matched]
           ELSE IF Len(exportInfo.namedExports) > 0 THEN exportInfo.namedExports[1]
           ELSE Null

IsBuiltinHookName(calleeName) ==
  calleeName \in {kUseState, kUseRef, kUseReducer, kUseEffect, kUseLayoutEffect,
                  kUseCallback, kUseMemo}

\* variant: the React Query rule is tried before the Zustand rule
classifyHookKind_QueryFirst(calleeName, importSource) ==
  IF IsBuiltinHookName(calleeName) THEN calleeName
  ELSE IF /\ importSource # Null
          /\ (Includes(importSource, strReactQuery) \/ Includes(importSource, strTanstack))
          /\ \/ Includes(ToLowerCase(calleeName), strMutation)
             \/ Includes(ToLowerCase(calleeName), strQuery)
       THEN kReactQuery
  ELSE IF /\ StartsWith(calleeName, strUse)
          /\ EndsWith(calleeName, strStore)
          /\ importSource # Null
          /\ Includes(importSource, strZustand)
       THEN kZustand
  ELSE kCustom

classifyHookKind(calleeName, importSource) ==
  IF calleeName = kUseState THEN kUseState
  ELSE IF calleeName = kUseRef THEN kUseRef
  ELSE IF calleeName = kUseReducer THEN kUseReducer
  ELSE IF calleeName = kUseEffect THEN kUseEffect
  ELSE IF calleeName = kUseLayoutEffect THEN kUseLayoutEffect
  ELSE IF calleeName = kUseCallback THEN kUseCallback
  ELSE IF calleeName = kUseMemo THEN kUseMemo
  ELSE IF /\ StartsWith(calleeName, strUse)
          /\ EndsWith(calleeName, strStore)
          /\ importSource # Null
          /\ Includes(importSource, strZustand)
       THEN kZustand
  ELSE IF /\ importSource # Null
          /\ (Includes(importSource, strReactQuery) \/ Includes(importSource, strTanstack))
          /\ \/ Includes(ToLowerCase(calleeName), strMutation)
             \/ Includes(ToLowerCase(calleeName), strQuery)
       THEN kReactQuery
  ELSE kCustom

\* scope of a hook fact (inspectFunctionBody)
ScopeOf(hookKind) ==
  IF hookKind = kZustand \/ hookKind = kReactQuery THEN "global" ELSE "local"

\* ------------------------------------------------------------------------
\* analyzeEffectCall / analyzeUseCallbackCall
\*   a call of the body: [decl, elems, member, callee, hasFn, events,
\*                        hasDeps, deps]
\*     decl   : "none" | "id" | "array" | "object"  (the enclosing declarator)
\*     elems  : the binding's elements, a name or NonIdent
\*     member : the callee is a member expression (React.useState)
\*     hasFn  : the first argument is an arrow/function expression
\*     events : calls and member accesses of that function's body, in order
\*              [ev |-> "call", obj |-> callee name, prop |-> <<>>]
\*              [ev |-> "mcall", obj, prop]   obj.prop(...)
\*              [ev |-> "member", obj, prop]  obj.prop
\*     hasDeps: the second argument is an array literal
\*     deps   : its elements, a name or NonIdent
\* ------------------------------------------------------------------------
Identifiers(elems) == SelectSeq(elems, LAMBDA el : el # NonIdent)

\* /^set[A-Z]/.test(name)
IsSetterName(name) ==
  Len(name) >= 4 /\ SubSeq(name, 1, 3) = strSet /\ IsUpper(name[4])

RECURSIVE Flatten(_)
Flatten(xss) ==
  IF xss = <<>> THEN <<>> ELSE Head(xss) \o Flatten(Tail(xss))

EffectSetterOf(e) ==
  IF e.ev = "call" THEN (IF IsSetterName(e.obj) THEN <<e.obj>> ELSE <<>>)
  ELSE IF e.ev = "mcall" /\ (e.prop = strMutate \/ e.prop = strMutateAsync)
       THEN <<e.obj \o <<".">> \o e.prop>>
  ELSE <<>>

CallbackSetterOf(e) ==
  IF e.ev = "call" /\ IsSetterName(e.obj) THEN <<e.obj>> ELSE <<>>

RefOf(e) ==
  IF e.ev \in {"mcall", "member"} /\ EndsWith(e.obj, strRef) THEN <<e.obj>> ELSE <<>>

EffectDependencies(call, globalStateNames) ==
  IF call.hasDeps
  THEN LET ids == Identifiers(call.deps)
       IN  [i \in 1..Len(ids) |-> [name |-> ids[i], isGlobal |-> ids[i] \in globalStateNames]]
  ELSE <<>>

analyzeEffectCall(call, line, effectId, hookKind, globalStateNames) ==
  [id |-> effectId,
   hookKind |-> hookKind,
   dependencies |-> EffectDependencies(call, globalStateNames),
   setters |-> IF call.hasFn THEN Dedupe(Flatten([k \in 1..Len(call.events) |-> EffectSetterOf(call.events[k])])) ELSE <<>>,
   refs |-> IF call.hasFn THEN Dedupe(Flatten([k \in 1..Len(call.events) |-> RefOf(call.events[k])])) ELSE <<>>,
   definedAt |-> [line |-> line]]

analyzeUseCallbackCall(call, line, callbackId) ==
  [id |-> callbackId,
   name |-> IF call.decl = "id" /\ call.elems[1] # NonIdent THEN call.elems[1] ELSE Null,
   dependencies |-> IF call.hasDeps THEN Dedupe(Identifiers(call.deps)) ELSE <<>>,
   setters |-> IF call.hasFn THEN Dedupe(Flatten([k \in 1..Len(call.events) |-> CallbackSetterOf(call.events[k])])) ELSE <<>>,
   definedAt |-> [line |-> line]]

\* ------------------------------------------------------------------------
\* analyzeJsxTree
\*   an element: [parent, direct, tag, attrs]
\*     parent : index of the nearest enclosing element, 0 for none
\*     direct : the element is an immediate child of that element (FALSE:
\*              it sits in an expression container or a fragment)
\*     tag    : [shape |-> "id" | "member" | "ns", parts]
\*     attrs  : [kind |-> "ident" | "literal" | "expr" | "spread", name]
\* ------------------------------------------------------------------------
RECURSIVE JoinWith(_, _)
JoinWith(parts, sep) ==
  IF parts = <<>> THEN <<>>
  ELSE IF Len(parts) = 1 THEN parts[1]
  ELSE parts[1] \o sep \o JoinWith(Tail(parts), sep)

getJsxName(tag) ==
  IF tag.shape = "id" THEN tag.parts[1]
  ELSE IF tag.shape = "member" THEN JoinWith(tag.parts, <<".">>)
  ELSE IF tag.shape = "ns" THEN tag.parts[1] \o <<":">> \o tag.parts[2]
  ELSE <<"U", "n", "k", "n", "o", "w", "n">>

PropIdentifiers(attrs) ==
  LET idents == SelectSeq(attrs, LAMBDA a : a.kind = "ident")
  IN  Dedupe([i \in 1..Len(idents) |-> idents[i].name])

RECURSIVE IsAncestor(_, _, _)
IsAncestor(jsx, a, i) ==
  IF i = 0 THEN FALSE
  ELSE jsx[i].parent = a \/ IsAncestor(jsx, a, jsx[i].parent)

\* the elements path.traverse enters below element i, in order
Descendants(jsx, i) ==
  SelectSeq([k \in 1..Len(jsx) |-> k], LAMBDA k : IsAncestor(jsx, i, k))

\* the parent identity recorded on an element fact
WithParentId(fact, parentId) == [parentId |-> parentId] @@ fact

\* traverseJsx pushes the element's fact and then, in the child visitor of
\* path.traverse, calls itself for every element the traversal enters below
\* it; the traversal does not skip the subtrees already walked by the call.
RECURSIVE traverseJsx(_, _, _, _, _, _)
RECURSIVE VisitBelow(_, _, _, _, _, _)
traverseJsx(jsx, i, depth, parentId, line0, result) ==
  LET id == Dash(<<"jsx">>, Num(Len(result) + 1))
      fact == [id |-> id,
               component |-> getJsxName(jsx[i].tag),
               depth |-> depth,
               props |-> PropIdentifiers(jsx[i].attrs),
               definedAt |-> [line |-> line0 + i]]
  IN  VisitBelow(jsx, Descendants(jsx, i), depth + 1, id, line0,
                 Append(result, WithParentId(fact, parentId)))

VisitBelow(jsx, todo, depth, parentId, line0, result) ==
  IF todo = <<>> THEN result
  ELSE VisitBelow(jsx, Tail(todo), depth, parentId, line0,
                  traverseJsx(jsx, Head(todo), depth, parentId, line0, result))

\* rootPath.traverse: every element below rootPath whose parent path is not
\* an element starts a tree at depth 0.  skipFirst: rootPath is element 1
\* itself, which path.traverse does not enter.
RECURSIVE VisitRoots(_, _, _, _, _)
VisitRoots(jsx, i, skipFirst, line0, result) ==
  IF i > Len(jsx) THEN result
  ELSE LET isRoot == (jsx[i].parent = 0 \/ ~jsx[i].direct) /\ ~(skipFirst /\ i = 1)
       IN  VisitRoots(jsx, i + 1, skipFirst, line0,
                      IF isRoot THEN traverseJsx(jsx, i, 0, Null, line0, result)
                      ELSE result)

analyzeJsxTree(jsx, skipFirst, line0) == VisitRoots(jsx, 1, skipFirst, line0, <<>>)

\* ------------------------------------------------------------------------
\* analyzeComponentBody / inspectFunctionBody
\* ------------------------------------------------------------------------
\* VariableDeclarator visitor
InspectDeclarator(acc, call, line, imports) ==
  IF call.decl = "none" \/ call.member THEN acc
  ELSE LET source == ImportSourceOf(imports, call.callee)
           hookKind == classifyHookKind(call.callee, source)
           names == Identifiers(call.elems)
           scope == ScopeOf(hookKind)
           n == Len(acc.hooks)
           added == [k \in 1..Len(names) |->
                       [id |-> Dash(<<"hook">>, Num(n + k)),
                        name |-> names[k],
                        hookKind |-> hookKind,
                        scope |-> scope,
                        definedAt |-> [line |-> line],
                        meta |-> [importSource |-> source]]]
       IN  [acc EXCEPT !.hooks = @ \o added,
                       !.globalStateNames = IF scope = "global" THEN @ \cup Range(names) ELSE @]

\* CallExpression visitor
InspectCall(acc, call, line, imports) ==
  IF call.member THEN acc
  ELSE LET source == ImportSourceOf(imports, call.callee)
           hookKind == classifyHookKind(call.callee, source)
       IN  IF hookKind = kUseEffect \/ hookKind = kUseLayoutEffect
           THEN [acc EXCEPT !.effects = Append(@,
                   analyzeEffectCall(call, line, Dash(<<"effect">>, Num(Len(acc.effects) + 1)),
                                     hookKind, acc.globalStateNames))]
           ELSE IF hookKind = kUseCallback
           THEN [acc EXCEPT !.callbacks = Append(@,
                   analyzeUseCallbackCall(call, line, Dash(<<"callback">>, Num(Len(acc.callbacks) + 1))))]
           ELSE acc

RECURSIVE InspectCalls(_, _, _, _)
InspectCalls(acc, body, i, imports) ==
  IF i > Len(body) THEN acc
  ELSE InspectCalls(InspectCall(InspectDeclarator(acc, body[i], i, imports), body[i], i, imports),
                    body, i + 1, imports)

EmptyFacts ==
  [hooks |-> <<>>, effects |-> <<>>, callbacks |-> <<>>, jsxNodes |-> <<>>,
   globalStateNames |-> {}]

\* variant: the global names of the whole body are known before the first
\* call is inspected
inspectFunctionBody_HoistedNames(s) ==
  LET start == [EmptyFacts EXCEPT !.jsxNodes = analyzeJsxTree(s.jsx, FALSE, Len(s.body))]
      names == InspectCalls(start, s.body, 1, s.imports).globalStateNames
  IN  InspectCalls([start EXCEPT !.globalStateNames = names], s.body, 1, s.imports)

inspectFunctionBody(s) ==
  InspectCalls([EmptyFacts EXCEPT !.jsxNodes = analyzeJsxTree(s.jsx, FALSE, Len(s.body))],
               s.body, 1, s.imports)

\* the arrow function's body is the first element itself
BodyIsElement(s) ==
  /\ s.jsx # <<>>
  /\ \A i \in 2..Len(s.jsx) : IsAncestor(s.jsx, 1, i)

isPrimaryComponent(s, primaryComponentName) ==
  primaryComponentName # Null /\ s.declName = primaryComponentName

\* variant: the component is analysed whether or not it is the primary one
analyzeComponentBody_AnyComponent(s, primaryComponentName) ==
  IF s.form \in {"function", "arrowBlock"} THEN inspectFunctionBody(s)
  ELSE [EmptyFacts EXCEPT !.jsxNodes = analyzeJsxTree(s.jsx, BodyIsElement(s), 0)]

analyzeComponentBody(s, primaryComponentName) ==
  IF ~isPrimaryComponent(s, primaryComponentName) THEN EmptyFacts
  ELSE IF s.form \in {"function", "arrowBlock"} THEN inspectFunctionBody(s)
  ELSE [EmptyFacts EXCEPT !.jsxNodes = analyzeJsxTree(s.jsx, BodyIsElement(s), 0)]

analyzeReactComponent(s) ==
  LET exportInfo == collectExportedComponents(s.exports)
      primaryComponentName == pickPrimaryComponent(exportInfo, s.fileName)
      facts == analyzeComponentBody(s, primaryComponentName)
  IN  [fileName |-> s.fileName,
       componentName |-> primaryComponentName,
       hooks |-> facts.hooks,
       effects |-> facts.effects,
       callbacks |-> facts.callbacks,
       jsxNodes |-> facts.jsxNodes,
       meta |-> [exportedComponents |-> exportInfo.namedExports,
                 defaultExport |-> exportInfo.defaultExport],
       errors |-> <<>>]

\* ------------------------------------------------------------------------
\* buildGraph.ts: columns, nodes
\* ------------------------------------------------------------------------
base == 80

gap == 220

NodeWidth == 120

NodeHeight == 32

buildColumnX ==
  [independent |-> base,
   state |-> base + gap,
   variable |-> base + gap * 2,
   effect |-> base + gap * 3,
   jsx |-> base + gap * 4]

layoutColumnNodes(items, kind, x, startY, gapY) ==
  [index \in 1..Len(items) |->
     [id |-> Dash(<<kind>>, items[index].id),
      label |-> items[index].label,
      kind |-> kind,
      x |-> x,
      y |-> startY + (index - 1) * gapY,
      width |-> NodeWidth,
      height |-> NodeHeight,
      meta |-> items[index].meta]]

\* 1. hooks.filter(useRef)
IndependentItems(hooks) ==
  LET hs == SelectSeq(hooks, LAMBDA h : h.hookKind = kUseRef)
  IN  [i \in 1..Len(hs) |->
         [id |-> hs[i].id, label |-> hs[i].name,
          meta |-> [hookKind |-> hs[i].hookKind, scope |-> hs[i].scope]]]

\* variant: only useState hooks become state items
StateItems_OnlyUseState(hooks) ==
  LET hs == SelectSeq(hooks, LAMBDA h : h.hookKind = kUseState)
  IN  [i \in 1..Len(hs) |->
         [id |-> hs[i].id,
          label |-> IF hs[i].scope = "global" THEN hs[i].name \o strGlobalSuffix ELSE hs[i].name,
          meta |-> [hookKind |-> hs[i].hookKind, scope |-> hs[i].scope]]]

\* 2. hooks.filter(useState, zustand, react-query)
StateItems(hooks) ==
  LET hs == SelectSeq(hooks, LAMBDA h : h.hookKind \in {kUseState, kZustand, kReactQuery})
  IN  [i \in 1..Len(hs) |->
         [id |-> hs[i].id,
          label |-> IF hs[i].scope = "global" THEN hs[i].name \o strGlobalSuffix ELSE hs[i].name,
          meta |-> [hookKind |-> hs[i].hookKind, scope |-> hs[i].scope]]]

\* 3. effects, then callbacks
EffectItems(effects, callbacks) ==
  [i \in 1..Len(effects) |->
     [id |-> effects[i].id, label |-> effects[i].hookKind,
      meta |-> [type |-> "effect"] @@ effects[i]]]
  \o
  [i \in 1..Len(callbacks) |->
     [id |-> callbacks[i].id,
      label |-> IF callbacks[i].name # Null THEN callbacks[i].name ELSE strCallback,
      meta |-> [type |-> "callback"] @@ callbacks[i]]]

\* 4. element items; the depth-grouped placement of buildGraphFromMappingResult
JsxLayoutItems(jsxNodes) ==
  [i \in 1..Len(jsxNodes) |->
     [id |-> jsxNodes[i].id, label |-> jsxNodes[i].component,
      depth |-> jsxNodes[i].depth,
      meta |-> [depth |-> jsxNodes[i].depth, props |-> jsxNodes[i].props]]]

jsxBaseY == 80

depthGapY == 80

intraGapY == 32

\* one entry of jsxByDepth, placed
DepthBand(items, depth, x) ==
  LET band == SelectSeq(items, LAMBDA it : it.depth = depth)
  IN  [index \in 1..Len(band) |->
         [id |-> Dash(<<"jsx">>, band[index].id),
          label |-> band[index].label,
          kind |-> "jsx",
          x |-> x,
          y |-> jsxBaseY + depth * depthGapY + (index - 1) * intraGapY,
          width |-> NodeWidth,
          height |-> NodeHeight,
          meta |-> band[index].meta]]

\* Array.from(jsxByDepth.entries()).sort(by depth).forEach(...)
DepthGroupedJsxNodes(items, x) ==
  LET depths == {items[i].depth : i \in 1..Len(items)}
      top == IF depths = {} THEN 0 ELSE (CHOOSE d \in depths : \A e \in depths : e <= d) + 1
  IN  Flatten([k \in 1..top |-> DepthBand(items, k - 1, x)])

\* variant: the element nodes are not pushed
AllNodes_DropJsx(independentNodes, stateNodes, effectNodes, jsxNodes) ==
  independentNodes \o stateNodes \o effectNodes

\* nodes.push(...independentNodes) ... nodes.push(...jsxNodes)
AllNodes(independentNodes, stateNodes, effectNodes, jsxNodes) ==
  independentNodes \o stateNodes \o effectNodes \o jsxNodes

\* ------------------------------------------------------------------------
\* buildGraph.ts: edges
\* ------------------------------------------------------------------------
\* variant: both end points are the centres of the nodes
NewEdge_CentreToCentre(id, from, to, kind, label) ==
  [id |-> id,
   from |-> [nodeId |-> from.id, x |-> from.x, y |-> from.y],
   to |-> [nodeId |-> to.id, x |-> to.x, y |-> to.y],
   kind |-> kind,
   label |-> label]

NewEdge(id, from, to, kind, label) ==
  [id |-> id,
   from |-> [nodeId |-> from.id, x |-> from.x + from.width \div 2, y |-> from.y],
   to |-> [nodeId |-> to.id, x |-> to.x - to.width \div 2, y |-> to.y],
   kind |-> kind,
   label |-> label]

\* variant: a from-node beyond the end of the to-list gets no edge
connectSequential_DropExtra(fromNodes, toNodes, label) ==
  LET step(index) ==
        IF index > Len(toNodes) THEN <<>>
        ELSE <<NewEdge(Dash(Dash(<<"flow">>, fromNodes[index].id), toNodes[index].id),
                       fromNodes[index], toNodes[index], "flow", label)>>
  IN  Flatten([index \in 1..Len(fromNodes) |-> step(index)])

connectSequential(fromNodes, toNodes, label) ==
  LET step(index) ==
        LET to == IF index <= Len(toNodes) THEN index ELSE Len(toNodes)
        IN  IF to = 0 THEN <<>>
            ELSE <<NewEdge(Dash(Dash(<<"flow">>, fromNodes[index].id), toNodes[to].id),
                           fromNodes[index], toNodes[to], "flow", label)>>
  IN  Flatten([index \in 1..Len(fromNodes) |-> step(index)])

\* independent -> state
FlowEdges(independentNodes, stateNodes) ==
  IF Len(independentNodes) > 0 /\ Len(stateNodes) > 0
  THEN connectSequential(independentNodes, stateNodes, Undefined)
  ELSE <<>>

\* variant: the first state node stands in when no label matches
FindStateNode_FallbackFirst(stateNodes, name) ==
  LET found == FindFirst([i \in 1..Len(stateNodes) |-> StartsWith(stateNodes[i].label, name)])
  IN  IF found # 0 THEN found ELSE IF Len(stateNodes) > 0 THEN 1 ELSE 0

\* stateNodes.find((n) => n.label.startsWith(name))
FindStateNode(stateNodes, name) ==
  FindFirst([i \in 1..Len(stateNodes) |-> StartsWith(stateNodes[i].label, name)])

\* variant: the letter after "set" keeps its case
SetterStateName_NoLower(setter) ==
  IF IsSetterName(setter) THEN SubSeq(setter, 4, Len(setter)) ELSE setter

\* setter.match(/^set([A-Z].*)/) ? lower-cased first letter + rest : setter
SetterStateName(setter) ==
  IF IsSetterName(setter)
  THEN <<ToLowerChar(setter[4])>> \o SubSeq(setter, 5, Len(setter))
  ELSE setter

\* effectNodes.find((n) => n.id === `effect-${id}`)
FindEffectNode(effectNodes, id) ==
  FindFirst([i \in 1..Len(effectNodes) |-> effectNodes[i].id = Dash(<<"effect">>, id)])

\* variant: a state node whose label equals the dependency name is preferred
\* to an earlier one that only starts with it
DependencyEdges_ExactFirst(effect, effectNode, stateNodes) ==
  LET one(dep) ==
        LET x == FindFirst([i \in 1..Len(stateNodes) |-> stateNodes[i].label = dep.name])
            s == IF x # 0 THEN x ELSE FindStateNode(stateNodes, dep.name)
        IN  IF s = 0 THEN <<>>
            ELSE <<NewEdge(Dash(Dash(Dash(<<"dep">>, stateNodes[s].id), effectNode.id), dep.name),
                           stateNodes[s], effectNode, "state-dependency", dep.name)>>
  IN  Flatten([k \in 1..Len(effect.dependencies) |-> one(effect.dependencies[k])])

DependencyEdges(effect, effectNode, stateNodes) ==
  LET one(dep) ==
        LET s == FindStateNode(stateNodes, dep.name)
        IN  IF s = 0 THEN <<>>
            ELSE <<NewEdge(Dash(Dash(Dash(<<"dep">>, stateNodes[s].id), effectNode.id), dep.name),
                           stateNodes[s], effectNode, "state-dependency", dep.name)>>
  IN  Flatten([k \in 1..Len(effect.dependencies) |-> one(effect.dependencies[k])])

\* variant: the last state node with the prefix is the destination
MutationEdges_LastMatch(prefix, setters, fromNode, stateNodes) ==
  LET one(setter) ==
        LET hits == {i \in 1..Len(stateNodes) :
                       StartsWith(stateNodes[i].label, SetterStateName(setter))}
            s == IF hits = {} THEN 0 ELSE CHOOSE i \in hits : \A j \in hits : j <= i
        IN  IF s = 0 THEN <<>>
            ELSE <<NewEdge(Dash(Dash(Dash(prefix, fromNode.id), stateNodes[s].id), setter),
                           fromNode, stateNodes[s], "state-mutation", setter)>>
  IN  Flatten([k \in 1..Len(setters) |-> one(setters[k])])

MutationEdges(prefix, setters, fromNode, stateNodes) ==
  LET one(setter) ==
        LET s == FindStateNode(stateNodes, SetterStateName(setter))
        IN  IF s = 0 THEN <<>>
            ELSE <<NewEdge(Dash(Dash(Dash(prefix, fromNode.id), stateNodes[s].id), setter),
                           fromNode, stateNodes[s], "state-mutation", setter)>>
  IN  Flatten([k \in 1..Len(setters) |-> one(setters[k])])

\* state -> effect, effect -> state
EffectEdges(effects, effectNodes, stateNodes) ==
  LET one(effect) ==
        LET e == FindEffectNode(effectNodes, effect.id)
        IN  IF e = 0 THEN <<>>
            ELSE DependencyEdges(effect, effectNodes[e], stateNodes)
                 \o MutationEdges(<<"mut">>, effect.setters, effectNodes[e], stateNodes)
  IN  Flatten([k \in 1..Len(effects) |-> one(effects[k])])

\* callback -> state
CallbackEdges(callbacks, effectNodes, stateNodes) ==
  LET one(cb) ==
        LET c == FindEffectNode(effectNodes, cb.id)
        IN  IF c = 0 THEN <<>>
            ELSE MutationEdges(<<"cb", "-", "mut">>, cb.setters, effectNodes[c], stateNodes)
  IN  Flatten([k \in 1..Len(callbacks) |-> one(callbacks[k])])

\* state / ref -> element prop
\* variant: an independent node with exactly that label is preferred to a
\* state node with the prefix
PropSource_IndependentFirst(stateNodes, independentNodes, name) ==
  LET s == FindStateNode(stateNodes, name)
      r == FindFirst([i \in 1..Len(independentNodes) |-> independentNodes[i].label = name])
  IN  IF r # 0 THEN <<independentNodes[r]>>
      ELSE IF s # 0 THEN <<stateNodes[s]>>
      ELSE <<>>

PropSource(stateNodes, independentNodes, name) ==
  LET s == FindStateNode(stateNodes, name)
      r == FindFirst([i \in 1..Len(independentNodes) |-> independentNodes[i].label = name])
  IN  IF s # 0 THEN <<stateNodes[s]>>
      ELSE IF r # 0 THEN <<independentNodes[r]>>
      ELSE <<>>

PropEdges(jsxNodes, stateNodes, independentNodes) ==
  LET one(jsxNode) ==
        LET forProp(name) ==
              LET fromStateNode == PropSource(stateNodes, independentNodes, name)
              IN  IF fromStateNode = <<>> THEN <<>>
                  ELSE <<NewEdge(Dash(Dash(Dash(<<"jsx", "-", "prop">>, fromStateNode[1].id),
                                           jsxNode.id), name),
                                 fromStateNode[1], jsxNode, "state-dependency", name)>>
        IN  Flatten([k \in 1..Len(jsxNode.meta.props) |-> forProp(jsxNode.meta.props[k])])
  IN  Flatten([k \in 1..Len(jsxNodes) |-> one(jsxNodes[k])])

\* node.id.replace(/^jsx-/, "")
JsxLogicalId(nodeId) ==
  IF Len(nodeId) >= 2 /\ nodeId[1] = "jsx" /\ nodeId[2] = "-"
  THEN SubSeq(nodeId, 3, Len(nodeId))
  ELSE nodeId

\* jsxNodeMap.get(logicalId): the last node set under that key, 0 for none
JsxNodeMapGet(jsxNodes, logicalId) ==
  LET hits == {i \in 1..Len(jsxNodes) : JsxLogicalId(jsxNodes[i].id) = logicalId}
  IN  IF hits = {} THEN 0 ELSE CHOOSE i \in hits : \A j \in hits : j <= i

\* element parent -> child
StructuralEdges(jsxFacts, jsxNodes) ==
  LET one(jsx) ==
        IF jsx.parentId = Null THEN <<>>
        ELSE LET p == JsxNodeMapGet(jsxNodes, jsx.parentId)
                 c == JsxNodeMapGet(jsxNodes, jsx.id)
             IN  IF p = 0 \/ c = 0 THEN <<>>
                 ELSE <<NewEdge(Dash(Dash(<<"jsx", "-", "tree">>, jsxNodes[p].id), jsxNodes[c].id),
                                jsxNodes[p], jsxNodes[c], "flow", Undefined)>>
  IN  Flatten([k \in 1..Len(jsxFacts) |-> one(jsxFacts[k])])

\* lastJsxY + 120
CanvasHeight(jsxNodes) ==
  (IF Len(jsxNodes) > 0 THEN jsxNodes[Len(jsxNodes)].y ELSE 600) + 120

\* variant: the height of the empty layout is computed as for an analysis
EmptyLayout_ComputedHeight ==
  [nodes |-> <<>>, edges |-> <<>>, width |-> buildColumnX.jsx + 200,
   height |-> CanvasHeight(<<>>), colX |-> buildColumnX]

EmptyLayout ==
  [nodes |-> <<>>, edges |-> <<>>, width |-> buildColumnX.jsx + 200, height |-> 800,
   colX |-> buildColumnX]

\* input: <<>> for null, <<mappingResult>> otherwise
buildGraphFromMappingResult(input) ==
  IF input = <<>> THEN EmptyLayout
  ELSE LET mappingResult == input[1]
           colX == buildColumnX
           independentNodes == layoutColumnNodes(IndependentItems(mappingResult.hooks),
                                                 "independent", colX.independent, 80, 50)
           stateNodes == layoutColumnNodes(StateItems(mappingResult.hooks),
                                           "state", colX.state, 80, 40)
           effectNodes == layoutColumnNodes(EffectItems(mappingResult.effects, mappingResult.callbacks),
                                            "effect", colX.effect, 80, 40)
           jsxNodes == DepthGroupedJsxNodes(JsxLayoutItems(mappingResult.jsxNodes), colX.jsx)
       IN  [nodes |-> AllNodes(independentNodes, stateNodes, effectNodes, jsxNodes),
            edges |-> FlowEdges(independentNodes, stateNodes)
                      \o EffectEdges(mappingResult.effects, effectNodes, stateNodes)
                      \o CallbackEdges(mappingResult.callbacks, effectNodes, stateNodes)
                      \o PropEdges(jsxNodes, stateNodes, independentNodes)
                      \o StructuralEdges(mappingResult.jsxNodes, jsxNodes),
            width |-> colX.jsx + 200,
            height |-> CanvasHeight(jsxNodes),
            colX |-> colX]

\* graphModel.ts: the flat element column, no structural edges
JsxItems(jsxNodes) ==
  [i \in 1..Len(jsxNodes) |->
     [id |-> jsxNodes[i].id, label |-> jsxNodes[i].component,
      meta |-> [depth |-> jsxNodes[i].depth, props |-> jsxNodes[i].props]]]

buildGraphFromAnalysis(input) ==
  IF input = <<>> THEN EmptyLayout
  ELSE LET a == input[1]
           colX == buildColumnX
           independentNodes == layoutColumnNodes(IndependentItems(a.hooks),
                                                 "independent", colX.independent, 80, 50)
           stateNodes == layoutColumnNodes(StateItems(a.hooks), "state", colX.state, 80, 40)
           effectNodes == layoutColumnNodes(EffectItems(a.effects, a.callbacks),
                                            "effect", colX.effect, 80, 40)
           jsxNodes == layoutColumnNodes(JsxItems(a.jsxNodes), "jsx", colX.jsx, 80, 32)
       IN  [nodes |-> AllNodes(independentNodes, stateNodes, effectNodes, jsxNodes),
            edges |-> FlowEdges(independentNodes, stateNodes)
                      \o EffectEdges(a.effects, effectNodes, stateNodes)
                      \o CallbackEdges(a.callbacks, effectNodes, stateNodes)
                      \o PropEdges(jsxNodes, stateNodes, independentNodes),
            width |-> colX.jsx + 200,
            height |-> CanvasHeight(jsxNodes),
            colX |-> colX]

\* ------------------------------------------------------------------------
\* Explored component sources
\* ------------------------------------------------------------------------
BoundedSeq(S, n) == UNION {[1..k -> S] : k \in 0..n}

Call(decl, elems, callee, hasFn, events, hasDeps, deps) ==
  [decl |-> decl, elems |-> elems, member |-> FALSE, callee |-> callee,
   hasFn |-> hasFn, events |-> events, hasDeps |-> hasDeps, deps |-> deps]

CallEv(name) == [ev |-> "call", obj |-> name, prop |-> <<>>]

MCallEv(obj, prop) == [ev |-> "mcall", obj |-> obj, prop |-> prop]

MemberEv(obj, prop) == [ev |-> "member", obj |-> obj, prop |-> prop]

Callees ==
  <<kUseState, kUseRef, kUseReducer, kUseEffect, kUseLayoutEffect, kUseCallback, kUseMemo,
    cUseStore, cUseQuery, cUseQueryStore, cLoadData>>

ImportAllFrom(pkg) == [i \in 1..Len(Callees) |-> [local |-> Callees[i], source |-> pkg]]

StdImports ==
  <<[local |-> kUseState, source |-> pkgReact],
    [local |-> kUseRef, source |-> pkgReact],
    [local |-> kUseEffect, source |-> pkgReact],
    [local |-> kUseLayoutEffect, source |-> pkgReact],
    [local |-> kUseCallback, source |-> pkgReact],
    [local |-> cUseStore, source |-> pkgZustand],
    [local |-> cUseQuery, source |-> pkgTanstack]>>

ImportLists ==
  {<<>>, StdImports} \cup {ImportAllFrom(p) : p \in {pkgZustand, pkgTanstack, pkgBoth, pkgLocal}}

\* const [count, setCount] = useState(0)
sCount == Call("array", <<nCount, nSetCount>>, kUseState, FALSE, <<>>, FALSE, <<>>)

\* const countValue = useState(0)
sCountValue == Call("id", <<nCountValue>>, kUseState, FALSE, <<>>, FALSE, <<>>)

\* const inputRef = useRef(null)
sRef == Call("id", <<nInputRef>>, kUseRef, FALSE, <<>>, FALSE, <<>>)

\* const store = useStore()
sStore == Call("id", <<nStore>>, cUseStore, FALSE, <<>>, FALSE, <<>>)

\* useEffect(() => { setCount(..) }, [count])
sEffect == Call("none", <<>>, kUseEffect, TRUE, <<CallEv(nSetCount)>>, TRUE, <<nCount>>)

\* useEffect(() => { setCount(..); inputRef.current; setCount(..); api.mutate() },
\*           [count, count, store, other.x, other])
sEffectMany ==
  Call("none", <<>>, kUseEffect, TRUE,
       <<CallEv(nSetCount), MemberEv(nInputRef, nCurrent), CallEv(nSetCount),
         MCallEv(nApi, strMutate)>>,
       TRUE, <<nCount, nCount, nStore, NonIdent, nOther>>)

\* useLayoutEffect(() => { setCountValue(..); setOther(..) }, [countValue])
sLayoutEffect ==
  Call("none", <<>>, kUseLayoutEffect, TRUE, <<CallEv(nSetCountValue), CallEv(nSetOther)>>,
       TRUE, <<nCountValue>>)

\* const onClick = useCallback(() => { setCount(..); setCount(..); api.mutate() }, [count, count])
sCallback ==
  Call("id", <<nOnClick>>, kUseCallback, TRUE,
       <<CallEv(nSetCount), CallEv(nSetCount), MCallEv(nApi, strMutate)>>, TRUE, <<nCount, nCount>>)

Stmts == {sCount, sCountValue, sRef, sStore, sEffectMany, sLayoutEffect, sCallback}

nDiv == <<"d", "i", "v">>

TagOf(i) ==
  IF i % 3 = 1 THEN [shape |-> "id", parts |-> <<nDiv>>]
  ELSE IF i % 3 = 2 THEN [shape |-> "member", parts |-> <<nFoo, nBar>>]
  ELSE [shape |-> "ns", parts |-> <<nApi, nDiv>>]

Element(parent, direct, attrs, i) ==
  [parent |-> parent, direct |-> direct, tag |-> TagOf(i), attrs |-> attrs]

IdentAttr(name) == [kind |-> "ident", name |-> name]

\* <div a={count} b="x" c={inputRef} d={input} e={other} f={count} g={store} {...rest} />
PropAttrs ==
  <<IdentAttr(nCount), [kind |-> "literal", name |-> <<>>], IdentAttr(nInputRef),
    IdentAttr(nInput), IdentAttr(nOther), IdentAttr(nCount), IdentAttr(nStore),
    [kind |-> "spread", name |-> <<>>]>>

AttrChoices == {<<>>, PropAttrs}

\* the elements a new element k may be nested in: the previous element or
\* one of its ancestors (source order is pre-order)
OpenElements(jsx) ==
  {j \in 1..Len(jsx) : j = Len(jsx) \/ IsAncestor(jsx, j, Len(jsx))}

\* the first two elements are written with or without props, the later ones
\* without
AttrChoicesAt(k) == IF k <= 2 THEN AttrChoices ELSE {<<>>}

NextElements(jsx) ==
  {Element(0, FALSE, a, Len(jsx) + 1) : a \in AttrChoicesAt(Len(jsx) + 1)}
  \cup {Element(p, d, a, Len(jsx) + 1) :
          p \in OpenElements(jsx), d \in BOOLEAN, a \in AttrChoicesAt(Len(jsx) + 1)}

RECURSIVE ForestsOfLen(_)
ForestsOfLen(n) ==
  IF n = 0 THEN {<<>>}
  ELSE UNION {{Append(f, el) : el \in NextElements(f)} : f \in ForestsOfLen(n - 1)}

Forests(n) == UNION {ForestsOfLen(k) : k \in 0..n}

ExportDecls ==
  {[kind |-> "default", name |-> nApp], [kind |-> "default", name |-> nFoo],
   [kind |-> "default", name |-> Null],
   [kind |-> "named", name |-> nApp], [kind |-> "named", name |-> nFoo],
   [kind |-> "named", name |-> nBar]}

\* a module has at most one default export and no name exported twice
ExportLists(n) ==
  {es \in BoundedSeq(ExportDecls, n) :
     /\ Cardinality({i \in 1..Len(es) : es[i].kind = "default"}) <= 1
     /\ \A i, j \in 1..Len(es) : (i # j /\ es[i].kind = "named" /\ es[j].kind = "named")
                                    => es[i].name # es[j].name}

FileNames == {Undefined, <<>>, fileFoo, fileBar, fileBarTest, fileDir}

Source(imports, exports, fileName, form, body, jsx) ==
  [imports |-> imports, exports |-> exports, fileName |-> fileName, declName |-> nApp,
   form |-> form, body |-> body, jsx |-> jsx]

DefaultApp == <<[kind |-> "default", name |-> nApp]>>

\* the shapes of one call: callee(() => { setCount(..) }, [count]),
\* React.callee(..) and callee(handler)
CallShapes(decl, elems, callee) ==
  {Call(decl, elems, callee, TRUE, <<CallEv(nSetCount)>>, TRUE, <<nCount>>),
   [Call(decl, elems, callee, TRUE, <<CallEv(nSetCount)>>, TRUE, <<nCount>>) EXCEPT !.member = TRUE],
   Call(decl, elems, callee, FALSE, <<>>, FALSE, <<>>)}

Bindings ==
  {<<"id", <<nStore>>>>, <<"array", <<nCount, NonIdent, nSetCount>>>>, <<"none", <<>>>>}

\* one declaration or call under every import list
ClassifySources ==
  {Source(im, DefaultApp, Undefined, "function", <<call>>, <<>>) :
     im \in ImportLists,
     call \in UNION {CallShapes(b[1], b[2], c) : b \in Bindings, c \in Range(Callees)}}

\* hooks, effects and callbacks in every order, over one element with props
EdgeSources ==
  {Source(StdImports, DefaultApp, Undefined, "function", body,
          <<Element(0, FALSE, PropAttrs, 1)>>) :
     body \in BoundedSeq(Stmts, MaxStmts)}

\* element trees
JsxSources ==
  {Source(StdImports, DefaultApp, Undefined, fb[1], fb[2], jsx) :
     fb \in {<<"function", <<>>>>, <<"function", <<sRef, sCount>>>>,
             <<"arrowBlock", <<sCount>>>>, <<"arrowExpr", <<>>>>},
     jsx \in Forests(MaxElems)}

\* export sets and file names
ExportSources ==
  {Source(StdImports, es, fn, "function", <<sCount, sEffect>>, <<Element(0, FALSE, <<>>, 1)>>) :
     es \in ExportLists(MaxExports), fn \in FileNames}

\* const count = useState(0)
sCountOnly == Call("id", <<nCount>>, kUseState, FALSE, <<>>, FALSE, <<>>)

\* one state hook and one effect, in both orders
ScenarioSources ==
  {Source(StdImports, DefaultApp, Undefined, form, body, jsx) :
     form \in {"function", "arrowBlock"},
     body \in {<<sCount, sEffect>>, <<sEffect, sCount>>, <<sCountOnly, sEffect>>,
               <<sEffect, sCountOnly>>},
     jsx \in {<<>>, <<Element(0, FALSE, PropAttrs, 1)>>}}

\* const [inputRefValue] = useState(0)
sInputRefValue == Call("array", <<nInputRefValue>>, kUseState, FALSE, <<>>, FALSE, <<>>)

\* const otherRef = useRef(null)
sOtherRef == Call("id", <<nOtherRef>>, kUseRef, FALSE, <<>>, FALSE, <<>>)

\* refs and a state hook whose names are prefixes of one another, over one
\* element with props
PropSources ==
  {Source(StdImports, DefaultApp, Undefined, "function", body,
          <<Element(0, FALSE, PropAttrs, 1)>>) :
     body \in {<<sRef, sInputRefValue, sOtherRef>>, <<sInputRefValue, sOtherRef, sRef>>,
               <<sRef, sInputRefValue>>, <<sOtherRef, sRef>>}}

\* a ref, a state hook and an effect over a parent and a child element
FullSources ==
  {Source(StdImports, DefaultApp, Undefined, form, <<sRef, sCount, sEffect>>,
          <<Element(0, FALSE, PropAttrs, 1), Element(1, TRUE, <<>>, 2)>>) :
     form \in {"function", "arrowBlock"}}

\* <><div/><Foo.Bar/><api:div/><div><Foo.Bar/></div></>: four roots, the last
\* with one child
WideForest ==
  <<Element(0, FALSE, <<>>, 1), Element(0, FALSE, <<>>, 2), Element(0, FALSE, <<>>, 3),
    Element(0, FALSE, <<>>, 4), Element(4, TRUE, <<>>, 5)>>

WideSources ==
  {Source(StdImports, DefaultApp, Undefined, form, <<>>, WideForest) :
     form \in {"function", "arrowBlock"}}

\* <><div/>...<div><Foo.Bar><api:div/></Foo.Bar></div></>: six roots, the
\* last with a child and a grandchild
DeepWideForest ==
  <<Element(0, FALSE, <<>>, 1), Element(0, FALSE, <<>>, 1), Element(0, FALSE, <<>>, 1),
    Element(0, FALSE, <<>>, 1), Element(0, FALSE, <<>>, 1), Element(0, FALSE, <<>>, 1),
    Element(6, TRUE, <<>>, 2), Element(7, TRUE, <<>>, 3)>>

DeepWideSources ==
  {Source(StdImports, DefaultApp, Undefined, form, <<>>, DeepWideForest) :
     form \in {"function", "arrowBlock"}}

Sources ==
  ClassifySources \cup EdgeSources \cup JsxSources \cup ExportSources \cup ScenarioSources
    \cup PropSources \cup FullSources \cup WideSources \cup DeepWideSources

\* ------------------------------------------------------------------------
\* The pipeline: analysis of the source, then assembly of the layout.  The
\* viewer assembles from whatever analysis it holds, null included.
\* ------------------------------------------------------------------------
Init ==
  /\ src \in Sources
  /\ analysis = <<>>
  /\ layout = <<>>
  /\ given = <<>>
  /\ builder = "none"

\* variant: the hook list is a module-level array that the next invocation
\* appends to
Analyze_SharedAccumulators ==
  /\ analysis' = <<[analyzeReactComponent(src) EXCEPT
                      !.hooks = (IF analysis = <<>> THEN <<>> ELSE analysis[1].hooks) \o @]>>
  /\ UNCHANGED <<src, layout, given, builder>>

Analyze ==
  /\ analysis' = <<analyzeReactComponent(src)>>
  /\ UNCHANGED <<src, layout, given, builder>>

BuildGraphFromMappingResult ==
  /\ layout' = <<buildGraphFromMappingResult(analysis)>>
  /\ given' = analysis
  /\ builder' = "buildGraphFromMappingResult"
  /\ UNCHANGED <<src, analysis>>

BuildGraphFromAnalysis ==
  /\ layout' = <<buildGraphFromAnalysis(analysis)>>
  /\ given' = analysis
  /\ builder' = "buildGraphFromAnalysis"
  /\ UNCHANGED <<src, analysis>>

Next == Analyze \/ BuildGraphFromMappingResult \/ BuildGraphFromAnalysis

Spec == Init /\ [][Next]_vars

\* ------------------------------------------------------------------------
\* Properties
\* ------------------------------------------------------------------------
Built == layout # <<>>

\* the layout was assembled from an analysis (not from null)
BuiltFromAnalysis == layout # <<>> /\ given # <<>>

Nodes == layout[1].nodes

Edges == layout[1].edges

Facts == given[1]

NodesOfKind(kind) == {i \in 1..Len(Nodes) : Nodes[i].kind = kind}

HooksOfKind(kinds) == {i \in 1..Len(Facts.hooks) : Facts.hooks[i].hookKind \in kinds}

StateLabels == {Nodes[i].label : i \in NodesOfKind("state")}

IndependentLabels == {Nodes[i].label : i \in NodesOfKind("independent")}

\* effects and callbacks with the identity of their node
Reactions ==
  {[node |-> Dash(<<"effect">>, Facts.effects[i].id), setters |-> Facts.effects[i].setters] :
     i \in 1..Len(Facts.effects)}
  \cup
  {[node |-> Dash(<<"effect">>, Facts.callbacks[i].id), setters |-> Facts.callbacks[i].setters] :
     i \in 1..Len(Facts.callbacks)}

\* the state name a mutation name stands for
Candidate(m) ==
  IF Len(m) > 3 /\ m[1] = "s" /\ m[2] = "e" /\ m[3] = "t" /\ m[4] \in Range(UpperCase)
  THEN [i \in 1..(Len(m) - 3) |-> IF i = 1 THEN ToLowerChar(m[4]) ELSE m[i + 3]]
  ELSE m

\* C1: in every layout, both endpoints of every edge name nodes of that
\* layout's node list.
C1_NoDanglingEdges ==
  Built => \A i \in 1..Len(Edges) :
             /\ \E n \in 1..Len(Nodes) : Nodes[n].id = Edges[i].from.nodeId
             /\ \E n \in 1..Len(Nodes) : Nodes[n].id = Edges[i].to.nodeId

\* a layout with element-to-element edges, prop edges and an unmatched prop
C1_Witness ==
  /\ BuiltFromAnalysis
  /\ builder = "buildGraphFromMappingResult"
  /\ \E i \in 1..Len(Edges) : Edges[i].kind = "flow" /\ Edges[i].to.nodeId[1] = "jsx"
  /\ \E i \in 1..Len(Edges) : Edges[i].kind = "state-dependency" /\ Edges[i].to.nodeId[1] = "jsx"
  /\ \E i \in 1..Len(Facts.jsxNodes) : nOther \in Range(Facts.jsxNodes[i].props)

\* C2 (as stated): independent nodes = ref hook facts, state nodes = state
\* hook facts, effect nodes = effect facts, element nodes = element facts.
C2_CountsAsStated ==
  BuiltFromAnalysis =>
    /\ Cardinality(NodesOfKind("independent")) = Cardinality(HooksOfKind({kUseRef}))
    /\ Cardinality(NodesOfKind("state")) = Cardinality(HooksOfKind({kUseState}))
    /\ Cardinality(NodesOfKind("effect")) = Len(Facts.effects)
    /\ Cardinality(NodesOfKind("jsx")) = Len(Facts.jsxNodes)

\* C2 (amended): independent nodes = ref hook facts; state nodes = hook facts
\* of category state, external-store or server-query; effect nodes = effect
\* facts + callback facts; element nodes = element facts.
C2_NodeCounts ==
  BuiltFromAnalysis =>
    /\ Cardinality(NodesOfKind("independent")) = Cardinality(HooksOfKind({kUseRef}))
    /\ Cardinality(NodesOfKind("state"))
         = Cardinality(HooksOfKind({kUseState, kZustand, kReactQuery}))
    /\ Cardinality(NodesOfKind("effect")) = Len(Facts.effects) + Len(Facts.callbacks)
    /\ Cardinality(NodesOfKind("jsx")) = Len(Facts.jsxNodes)

\* a layout of an analysis with an external-store hook, a callback and an element
C2_Witness ==
  /\ BuiltFromAnalysis
  /\ HooksOfKind({kZustand}) # {}
  /\ Len(Facts.callbacks) > 0
  /\ Len(Facts.jsxNodes) > 0

\* the component declares one state hook bound as count and one effect with
\* dependency array [count] whose body calls setCount
IsCountScenario ==
  /\ src.form \in {"function", "arrowBlock"}
  /\ Len(src.body) = 2
  /\ \E i, j \in 1..2 :
       /\ i # j
       /\ src.body[i].callee = kUseState /\ src.body[i].decl # "none"
       /\ src.body[i].elems \in {<<nCount>>, <<nCount, nSetCount>>}
       /\ src.body[j].callee = kUseEffect /\ src.body[j].decl = "none"
       /\ src.body[j].hasDeps /\ src.body[j].deps = <<nCount>>
       /\ src.body[j].hasFn /\ src.body[j].events = <<CallEv(nSetCount)>>
  /\ \A i \in 1..2 : ~src.body[i].member
  /\ ImportSourceOf(src.imports, kUseState) = pkgReact
  /\ ImportSourceOf(src.imports, kUseEffect) = pkgReact

\* the layout on display is the one of the analysed source
LayoutOfSource == BuiltFromAnalysis /\ analysis = given

IsNestedScenario ==
  /\ src.form \in {"function", "arrowBlock"}
  /\ Len(src.jsx) = 3
  /\ src.jsx[1].parent = 0
  /\ src.jsx[2].parent = 1 /\ src.jsx[2].direct
  /\ src.jsx[3].parent = 2 /\ src.jsx[3].direct

JsxNodeDepths == [i \in 1..Len(Facts.jsxNodes) |-> Facts.jsxNodes[i].depth]

\* edges between two element nodes
ElementEdges ==
  {i \in 1..Len(Edges) : Edges[i].from.nodeId[1] = "jsx" /\ Edges[i].to.nodeId[1] = "jsx"}

\* C4: three nested elements give exactly three element nodes, at depths 0,
\* 1 and 2, and exactly two parent -> child edges.
C4_NestedElements ==
  (/\ IsNestedScenario
   /\ LayoutOfSource
   /\ builder = "buildGraphFromMappingResult"
   /\ Facts.componentName = src.declName) =>
    /\ Cardinality(NodesOfKind("jsx")) = 3
    /\ JsxNodeDepths = <<0, 1, 2>>
    /\ Cardinality(ElementEdges) = 2

UnmatchedState(name) == \A l \in StateLabels : ~StartsWith(l, name)

NoEdgeInto(nodeId, name) ==
  \A i \in 1..Len(Edges) : ~(Edges[i].to.nodeId = nodeId /\ Edges[i].label = name)

NoEdgeOutOf(nodeId, name) ==
  \A i \in 1..Len(Edges) : ~(Edges[i].from.nodeId = nodeId /\ Edges[i].label = name)

UnmatchedDependencies ==
  {<<e, d>> \in (1..Len(Facts.effects)) \X (1..5) :
     /\ d <= Len(Facts.effects[e].dependencies)
     /\ UnmatchedState(Facts.effects[e].dependencies[d].name)}

UnmatchedMutations ==
  {<<r, m>> \in Reactions \X (1..5) :
     m <= Len(r.setters) /\ UnmatchedState(Candidate(r.setters[m]))}

UnmatchedProps ==
  {<<j, p>> \in (1..Len(Facts.jsxNodes)) \X (1..8) :
     /\ p <= Len(Facts.jsxNodes[j].props)
     /\ UnmatchedState(Facts.jsxNodes[j].props[p])
     /\ Facts.jsxNodes[j].props[p] \notin IndependentLabels}

\* C5: the assembler completes for every analysis, and a dependency name,
\* mutation name or prop identifier that matches no state node (for props:
\* and no independent node) gets no edge.
C5_UnmatchedNoEdge ==
  BuiltFromAnalysis =>
    /\ \A u \in UnmatchedDependencies :
         NoEdgeInto(Dash(<<"effect">>, Facts.effects[u[1]].id),
                    Facts.effects[u[1]].dependencies[u[2]].name)
    /\ \A u \in UnmatchedMutations : NoEdgeOutOf(u[1].node, u[1].setters[u[2]])
    /\ \A u \in UnmatchedProps :
         NoEdgeInto(Dash(<<"jsx">>, Facts.jsxNodes[u[1]].id), Facts.jsxNodes[u[1]].props[u[2]])

\* state nodes exist, and a dependency, a mutation and a prop match none
C5_Witness ==
  /\ BuiltFromAnalysis
  /\ StateLabels # {}
  /\ UnmatchedDependencies # {}
  /\ UnmatchedMutations # {}
  /\ UnmatchedProps # {}
  /\ Len(Edges) > 0

\* C6: assembled from null, the layout has no nodes, no edges, width 1160,
\* height 800 and columns at 80, 300, 520, 740, 960.
C6_AbsentInput ==
  (Built /\ given = <<>>) =>
    /\ Nodes = <<>>
    /\ Edges = <<>>
    /\ layout[1].width = 1160
    /\ layout[1].height = 800
    /\ layout[1].colX = [independent |-> 80, state |-> 300, variable |-> 520,
                         effect |-> 740, jsx |-> 960]

\* a layout assembled while no analysis was present
C6_Witness == Built /\ given = <<>> /\ builder = "buildGraphFromMappingResult"

MaxY == CHOOSE y \in {Nodes[i].y : i \in 1..Len(Nodes)} : \A i \in 1..Len(Nodes) : Nodes[i].y <= y

\* C7: for a layout of an analysis with at least one node, width is 1160 and
\* height is the largest y of its nodes + 120.
C7_CanvasSize ==
  (BuiltFromAnalysis /\ Len(Nodes) > 0) =>
    /\ layout[1].width = layout[1].colX.jsx + 200
    /\ layout[1].width = 1160
    /\ layout[1].height = MaxY + 120

GraphEdgeFields == {"id", "from", "to", "kind", "label"}

\* the edges created for elements with a recorded parent
StructuralEdgeIndexes ==
  {i \in 1..Len(Edges) :
     \E j \in 1..Len(Facts.jsxNodes) :
       /\ Facts.jsxNodes[j].parentId # Null
       /\ Edges[i].from.nodeId = Dash(<<"jsx">>, Facts.jsxNodes[j].parentId)
       /\ Edges[i].to.nodeId = Dash(<<"jsx">>, Facts.jsxNodes[j].id)}

\* C8: an edge created for an element with a recorded parent differs from a
\* flow edge in its kind or carries a structural marker of its own.
C8_StructuralDistinct ==
  (BuiltFromAnalysis /\ builder = "buildGraphFromMappingResult") =>
    \A i \in StructuralEdgeIndexes :
      Edges[i].kind # "flow" \/ DOMAIN Edges[i] # GraphEdgeFields

\* the file name without its extension
BaseNameOf(fileName) ==
  LET dots == {i \in 1..Len(fileName) : fileName[i] = "."}
      last == CHOOSE i \in dots : \A j \in dots : j <= i
  IN  IF dots = {} THEN fileName
      ELSE IF last = Len(fileName) THEN fileName
      ELSE IF \E j \in last..Len(fileName) : fileName[j] = "/" THEN fileName
      ELSE SubSeq(fileName, 1, last - 1)

DefaultExportOf(s) ==
  LET ds == {i \in 1..Len(s.exports) : s.exports[i].kind = "default" /\ s.exports[i].name # Null}
  IN  IF ds = {} THEN Null ELSE s.exports[CHOOSE i \in ds : TRUE].name

NamedExportsOf(s) ==
  LET ns == SelectSeq(s.exports, LAMBDA d : d.kind = "named")
  IN  [i \in 1..Len(ns) |-> ns[i].name]

\* C9: the primary component is the default export if present; else the sole
\* named export; else the named export equal to the file's base name, if a
\* file name is supplied; else the first named export; else absent.
C9_PrimarySelection ==
  analysis # <<>> =>
    LET def == DefaultExportOf(src)
        named == NamedExportsOf(src)
        picked == analysis[1].componentName
        supplied == src.fileName # Undefined /\ src.fileName # <<>>
    IN  IF def # Null THEN picked = def
        ELSE IF Len(named) = 1 THEN picked = named[1]
        ELSE IF supplied /\ BaseNameOf(src.fileName) \in Range(named)
             THEN picked = BaseNameOf(src.fileName)
        ELSE IF Len(named) > 0 THEN picked = named[1]
        ELSE picked = Null

\* no default export, two named exports, and the file name selects the second
C9_Witness ==
  /\ analysis # <<>>
  /\ DefaultExportOf(src) = Null
  /\ Len(NamedExportsOf(src)) = 2
  /\ src.fileName = fileBarTest \/ src.fileName = fileBar
  /\ analysis[1].componentName = NamedExportsOf(src)[2]

ImportOrigin(s, callee) ==
  LET is == {i \in 1..Len(s.imports) : s.imports[i].local = callee}
  IN  IF is = {} THEN Null ELSE s.imports[CHOOSE i \in is : TRUE].source

ExternalStoreRule(callee, origin) ==
  /\ origin # Null
  /\ Includes(origin, pkgZustand)
  /\ Len(callee) >= 5
  /\ SubSeq(callee, 1, 3) = <<"u", "s", "e">>
  /\ SubSeq(callee, Len(callee) - 4, Len(callee)) = <<"S", "t", "o", "r", "e">>

ServerQueryRule(callee, origin) ==
  /\ origin # Null
  /\ Includes(origin, strReactQuery) \/ Includes(origin, pkgTanstack)
  /\ \E w \in {strMutation, strQuery} : Includes(ToLowerCase(callee), w)

ExpectedCategory(callee, origin) ==
  CASE callee \in {kUseState, kUseRef, kUseReducer, kUseEffect, kUseLayoutEffect,
                   kUseCallback, kUseMemo} -> callee
    [] OTHER -> IF ExternalStoreRule(callee, origin) THEN kZustand
                ELSE IF ServerQueryRule(callee, origin) THEN kReactQuery
                ELSE kCustom

\* C10: a hook fact has the builtin category of its callee name whatever the
\* import origin; otherwise external-store before server-query, else
\* unclassified; its scope is global exactly for those two categories.
C10_Classification ==
  analysis # <<>> =>
    \A i \in 1..Len(analysis[1].hooks) :
      LET h == analysis[1].hooks[i]
          callee == src.body[h.definedAt.line].callee
      IN  /\ h.hookKind = ExpectedCategory(callee, ImportOrigin(src, callee))
          /\ h.scope \in {"global", "local"}
          /\ h.scope = "global" <=> h.hookKind \in {kZustand, kReactQuery}

\* a builtin name imported from a store / data-fetching package
C10_Witness ==
  /\ analysis # <<>>
  /\ \E i \in 1..Len(analysis[1].hooks) :
       /\ analysis[1].hooks[i].hookKind = kUseState
       /\ analysis[1].hooks[i].meta.importSource = pkgBoth

\* the module exports no component by name: no named export and no default
\* export of a named declaration
NoUsableExport == DefaultExportOf(src) = Null /\ NamedExportsOf(src) = <<>>

\* C11: when the source has no usable export, the analysis has an absent
\* componentName and empty hooks, effects, callbacks and element facts, and a
\* layout assembled from it has no nodes and no edges; the errors list of
\* every analysis is empty.
C11_UnresolvableComponent ==
  /\ analysis # <<>> =>
       /\ analysis[1].errors = <<>>
       /\ NoUsableExport =>
            /\ analysis[1].componentName = Null
            /\ analysis[1].hooks = <<>>
            /\ analysis[1].effects = <<>>
            /\ analysis[1].callbacks = <<>>
            /\ analysis[1].jsxNodes = <<>>
  /\ (LayoutOfSource /\ NoUsableExport) => (Nodes = <<>> /\ Edges = <<>>)

\* a component with hooks, an effect and an element in a module without a
\* usable export, analysed and assembled
C11_Witness ==
  /\ NoUsableExport
  /\ src.exports # <<>>
  /\ Len(src.body) > 1
  /\ Len(src.jsx) > 0
  /\ LayoutOfSource
  /\ builder = "buildGraphFromMappingResult"

RECURSIVE SyntacticDepth(_, _)
SyntacticDepth(jsx, i) ==
  IF jsx[i].parent = 0 \/ ~jsx[i].direct THEN 0
  ELSE SyntacticDepth(jsx, jsx[i].parent) + 1

\* the component of the source was analysed
Analysed == analysis # <<>> /\ analysis[1].componentName = src.declName

\* C13: every markup element of the component body yields exactly one
\* element fact; the k-th element in pre-order has identity jsx-k, depth 0
\* when it is a root and its parent's depth + 1 otherwise.
C13_ExtractionOnce ==
  Analysed =>
    /\ Len(analysis[1].jsxNodes) = Len(src.jsx)
    /\ \A k \in 1..Len(src.jsx) :
         k <= Len(analysis[1].jsxNodes) =>
           /\ analysis[1].jsxNodes[k].id = Dash(<<"jsx">>, Num(k))
           /\ analysis[1].jsxNodes[k].component = getJsxName(src.jsx[k].tag)
           /\ analysis[1].jsxNodes[k].depth = SyntacticDepth(src.jsx, k)

\* the state nodes of the layout, in construction order
StateNodeSeq == SelectSeq(Nodes, LAMBDA n : n.kind = "state")

IndependentNodeSeq == SelectSeq(Nodes, LAMBDA n : n.kind = "independent")

\* the lowest-index state node whose label starts with the name: a sequence
\* of its identity, empty when no label starts with it
FirstStateWithPrefix(name) ==
  LET hits == {i \in 1..Len(StateNodeSeq) : StartsWith(StateNodeSeq[i].label, name)}
  IN  IF hits = {} THEN <<>>
      ELSE <<StateNodeSeq[CHOOSE i \in hits : \A j \in hits : i <= j].id>>

\* <<source, label>> of the edges of a kind that end at a node, in edge order
EdgesInto(kind, nodeId) ==
  LET es == SelectSeq(Edges, LAMBDA e : e.kind = kind /\ e.to.nodeId = nodeId)
  IN  [i \in 1..Len(es) |-> <<es[i].from.nodeId, es[i].label>>]

\* <<destination, label>> of the edges of a kind that leave a node
EdgesOutOf(kind, nodeId) ==
  LET es == SelectSeq(Edges, LAMBDA e : e.kind = kind /\ e.from.nodeId = nodeId)
  IN  [i \in 1..Len(es) |-> <<es[i].to.nodeId, es[i].label>>]

\* per entry of the list: <<first state node with the prefix, label>>, nothing
\* when no state label starts with the prefix
ExpectedByPrefix(prefixes, labels) ==
  Flatten([k \in 1..Len(prefixes) |->
             IF FirstStateWithPrefix(prefixes[k]) = <<>> THEN <<>>
             ELSE <<<<FirstStateWithPrefix(prefixes[k])[1], labels[k]>>>>])

DependencyNames(effect) ==
  [k \in 1..Len(effect.dependencies) |-> effect.dependencies[k].name]

\* C14: the state-dependency edges into an effect node are, for each entry d
\* of the effect's dependency list in order, one edge labeled d from the
\* lowest-index state node whose label starts with d, and none for an entry
\* that no state label starts with.
C14_DependencyEdges ==
  BuiltFromAnalysis =>
    \A e \in 1..Len(Facts.effects) :
      EdgesInto("state-dependency", Dash(<<"effect">>, Facts.effects[e].id))
        = ExpectedByPrefix(DependencyNames(Facts.effects[e]), DependencyNames(Facts.effects[e]))

\* countValue is constructed before count, an effect depends on count: the
\* edge labeled count leaves the countValue node; another dependency matches
\* no state node
C14_Witness ==
  /\ BuiltFromAnalysis
  /\ \E i, j \in 1..Len(StateNodeSeq) :
       i < j /\ StateNodeSeq[i].label = nCountValue /\ StateNodeSeq[j].label = nCount
  /\ \E e \in 1..Len(Facts.effects) :
       /\ nOther \in Range(DependencyNames(Facts.effects[e]))
       /\ \E i \in 1..Len(Edges) :
            /\ Edges[i].kind = "state-dependency"
            /\ Edges[i].to.nodeId = Dash(<<"effect">>, Facts.effects[e].id)
            /\ Edges[i].label = nCount
            /\ Edges[i].from.nodeId = StateNodeSeq[1].id
            /\ StateNodeSeq[1].label = nCountValue

\* the effects and callbacks of the analysis, as the identity of their node
\* and their mutation names
ReactionSeq ==
  [i \in 1..Len(Facts.effects) |->
     [node |-> Dash(<<"effect">>, Facts.effects[i].id), setters |-> Facts.effects[i].setters]]
  \o
  [i \in 1..Len(Facts.callbacks) |->
     [node |-> Dash(<<"effect">>, Facts.callbacks[i].id), setters |-> Facts.callbacks[i].setters]]

\* C15: the state-mutation edges leaving an effect or callback node are, for
\* each of its mutation names m in order, one edge labeled m to the first
\* state node whose label starts with the candidate name of m (m without
\* "set" and with the next letter lowercased when m is set + uppercase
\* letter + rest, m itself otherwise), and none when no label starts with it.
C15_MutationEdges ==
  BuiltFromAnalysis =>
    \A r \in 1..Len(ReactionSeq) :
      EdgesOutOf("state-mutation", ReactionSeq[r].node)
        = ExpectedByPrefix([k \in 1..Len(ReactionSeq[r].setters) |->
                              Candidate(ReactionSeq[r].setters[k])],
                           ReactionSeq[r].setters)

\* an effect and a callback both call setCount and the effect also records
\* api.mutate: each node has its edge labeled setCount to the count node, and
\* the verbatim name has none
C15_Witness ==
  /\ BuiltFromAnalysis
  /\ Len(Facts.effects) > 0
  /\ Len(Facts.callbacks) > 0
  /\ nApi \o <<".">> \o strMutate \in Range(Facts.effects[1].setters)
  /\ \A r \in 1..Len(ReactionSeq) :
       \E i \in 1..Len(Edges) :
         /\ Edges[i].kind = "state-mutation"
         /\ Edges[i].from.nodeId = ReactionSeq[r].node
         /\ Edges[i].label = nSetCount
         /\ \E n \in 1..Len(StateNodeSeq) :
              StateNodeSeq[n].id = Edges[i].to.nodeId /\ StateNodeSeq[n].label = nCount

\* the first independent node whose label equals the name
FirstIndependentNamed(name) ==
  LET hits == {i \in 1..Len(IndependentNodeSeq) : IndependentNodeSeq[i].label = name}
  IN  IF hits = {} THEN <<>>
      ELSE <<IndependentNodeSeq[CHOOSE i \in hits : \A j \in hits : i <= j].id>>

\* the node a prop identifier is drawn from
ExpectedPropSource(p) ==
  IF FirstStateWithPrefix(p) # <<>> THEN FirstStateWithPrefix(p) ELSE FirstIndependentNamed(p)

JsxNodeSeq == SelectSeq(Nodes, LAMBDA n : n.kind = "jsx")

\* C16: the state-dependency edges into an element node are, for each of its
\* captured prop identifiers p in order, one edge labeled p from the first
\* state node whose label starts with p, or, when there is none, from the
\* first independent node whose label equals p; a prop with neither has no
\* edge, in particular one that is only a prefix of an independent label.
C16_PropEdges ==
  BuiltFromAnalysis =>
    \A n \in 1..Len(JsxNodeSeq) :
      EdgesInto("state-dependency", JsxNodeSeq[n].id)
        = Flatten([k \in 1..Len(JsxNodeSeq[n].meta.props) |->
                     LET p == JsxNodeSeq[n].meta.props[k]
                     IN  IF ExpectedPropSource(p) = <<>> THEN <<>>
                         ELSE <<<<ExpectedPropSource(p)[1], p>>>>])

\* prop inputRef: an independent node has exactly that label and the state
\* node inputRefValue starts with it, the edge leaves the state node; prop
\* other: only a prefix of the independent label otherRef, no edge
C16_Witness ==
  /\ BuiltFromAnalysis
  /\ nInputRef \in IndependentLabels
  /\ nOtherRef \in IndependentLabels
  /\ nInputRefValue \in StateLabels
  /\ \E n \in 1..Len(JsxNodeSeq) :
       /\ {nInputRef, nOther} \subseteq Range(JsxNodeSeq[n].meta.props)
       /\ \E i \in 1..Len(Edges) :
            /\ Edges[i].to.nodeId = JsxNodeSeq[n].id
            /\ Edges[i].label = nInputRef
            /\ Edges[i].from.nodeId[1] = "state"
       /\ NoEdgeInto(JsxNodeSeq[n].id, nOther)

\* <<source, destination>> of the flow edges that leave independent nodes
FlowPairs ==
  LET es == SelectSeq(Edges, LAMBDA e :
                        /\ e.kind = "flow"
                        /\ \E n \in 1..Len(IndependentNodeSeq) : IndependentNodeSeq[n].id = e.from.nodeId)
  IN  [i \in 1..Len(es) |-> <<es[i].from.nodeId, es[i].to.nodeId>>]

\* C17: with no independent node or no state node there is no flow pairing
\* edge; otherwise there is one per independent node, the i-th independent
\* node paired with the i-th state node, or with the last state node when i
\* is beyond the state list.
C17_FlowPairing ==
  BuiltFromAnalysis =>
    FlowPairs =
      IF Len(IndependentNodeSeq) = 0 \/ Len(StateNodeSeq) = 0 THEN <<>>
      ELSE [i \in 1..Len(IndependentNodeSeq) |->
              <<IndependentNodeSeq[i].id,
                StateNodeSeq[IF i <= Len(StateNodeSeq) THEN i ELSE Len(StateNodeSeq)].id>>]

\* two refs and one state hook: both independent nodes are paired with the
\* only state node
C17_Witness ==
  /\ BuiltFromAnalysis
  /\ Len(IndependentNodeSeq) = 2
  /\ IndependentNodeSeq[1].label # IndependentNodeSeq[2].label
  /\ Len(StateNodeSeq) = 1
  /\ Len(FlowPairs) = 2
  /\ FlowPairs[2] = <<IndependentNodeSeq[2].id, StateNodeSeq[1].id>>

EdgeKinds == {Edges[i].kind : i \in 1..Len(Edges)}

\* C18: the start point of every edge is (x + 60, y) of the node its source
\* identity names, and its end point is (x - 60, y) of the node its
\* destination identity names.
C18_EdgeGeometry ==
  Built =>
    \A i \in 1..Len(Edges) :
      /\ \E n \in 1..Len(Nodes) : Nodes[n].id = Edges[i].from.nodeId
      /\ \E n \in 1..Len(Nodes) : Nodes[n].id = Edges[i].to.nodeId
      /\ \A n \in 1..Len(Nodes) :
           /\ Nodes[n].id = Edges[i].from.nodeId =>
                (Edges[i].from.x = Nodes[n].x + 60 /\ Edges[i].from.y = Nodes[n].y)
           /\ Nodes[n].id = Edges[i].to.nodeId =>
                (Edges[i].to.x = Nodes[n].x - 60 /\ Edges[i].to.y = Nodes[n].y)

\* a layout with pairing, dependency, mutation, prop and parent -> child
\* edges; the mutation edge runs from the effect column back to the state
\* column
C18_Witness ==
  /\ BuiltFromAnalysis
  /\ EdgeKinds = {"flow", "state-dependency", "state-mutation"}
  /\ ElementEdges # {}
  /\ FlowPairs # <<>>
  /\ \E i \in 1..Len(Edges) :
       /\ Edges[i].kind = "state-mutation"
       /\ Edges[i].from.x = 800
       /\ Edges[i].to.x = 240
  /\ \E i \in 1..Len(Edges) : Edges[i].kind = "state-dependency" /\ Edges[i].to.nodeId[1] = "jsx"

\* the number of element nodes of the same depth placed before node n
BandIndex(n) ==
  Cardinality({m \in 1..(n - 1) : JsxNodeSeq[m].meta.depth = JsxNodeSeq[n].meta.depth})

\* C19: in a layout of buildGraphFromMappingResult every element node is at
\* y = 80 + depth * 80 + (index within its depth band) * 32, and of two
\* element nodes the one with the smaller depth has the strictly smaller y.
C19_DepthGovernsY ==
  (BuiltFromAnalysis /\ builder = "buildGraphFromMappingResult") =>
    /\ \A n \in 1..Len(JsxNodeSeq) :
         JsxNodeSeq[n].y = 80 + JsxNodeSeq[n].meta.depth * 80 + BandIndex(n) * 32
    /\ \A n, m \in 1..Len(JsxNodeSeq) :
         JsxNodeSeq[n].meta.depth < JsxNodeSeq[m].meta.depth => JsxNodeSeq[n].y < JsxNodeSeq[m].y

\* a hook fact bound to the name with scope global was recorded before the
\* effect call
GlobalDeclaredBefore(name, effect) ==
  \E h \in 1..Len(analysis[1].hooks) :
    /\ analysis[1].hooks[h].name = name
    /\ analysis[1].hooks[h].scope = "global"
    /\ analysis[1].hooks[h].definedAt.line < effect.definedAt.line

\* C20: the isGlobal flag of an effect's dependency d is true exactly when a
\* global-scoped hook fact bound to d was recorded before that effect call;
\* a global hook declared after the effect, or a local hook, leaves it false.
C20_GlobalFlagOrdering ==
  analysis # <<>> =>
    \A e \in 1..Len(analysis[1].effects) :
      \A d \in 1..Len(analysis[1].effects[e].dependencies) :
        analysis[1].effects[e].dependencies[d].isGlobal
          <=> GlobalDeclaredBefore(analysis[1].effects[e].dependencies[d].name,
                                   analysis[1].effects[e])

\* the same effect before and after const store = useStore(): its dependency
\* store is flagged only in the second, and count, bound by a local hook or
\* by none, in neither
C20_Witness ==
  /\ analysis # <<>>
  /\ Len(analysis[1].effects) = 2
  /\ \E h \in 1..Len(analysis[1].hooks) :
       analysis[1].hooks[h].name = nStore /\ analysis[1].hooks[h].scope = "global"
  /\ \E d \in 1..Len(analysis[1].effects[1].dependencies) :
       /\ d <= Len(analysis[1].effects[2].dependencies)
       /\ analysis[1].effects[1].dependencies[d] = [name |-> nStore, isGlobal |-> FALSE]
       /\ analysis[1].effects[2].dependencies[d] = [name |-> nStore, isGlobal |-> TRUE]
  /\ \E d \in 1..Len(analysis[1].effects[2].dependencies) :
       analysis[1].effects[2].dependencies[d] = [name |-> nCount, isGlobal |-> FALSE]

\* the names of a list without repetition, in order of first occurrence
FirstOccurrences(xs) ==
  LET keep == {i \in 1..Len(xs) : \A j \in 1..(i - 1) : xs[j] # xs[i]}
      pos == SelectSeq([i \in 1..Len(xs) |-> i], LAMBDA i : i \in keep)
  IN  [k \in 1..Len(pos) |-> xs[pos[k]]]

NoRepetition(xs) == \A i, j \in 1..Len(xs) : xs[i] = xs[j] => i = j

\* the call an effect fact was made from
EffectCallOf(effect) == src.body[effect.definedAt.line]

\* C21: the dependency, mutation-name and ref-name lists of every effect fact
\* hold no name twice and list the names in order of first occurrence: the
\* bare identifiers of the literal dependency array, the mutation calls and
\* the ref accesses of the callback body.
C21_EffectListsOrderedSets ==
  analysis # <<>> =>
    \A e \in 1..Len(analysis[1].effects) :
      LET effect == analysis[1].effects[e]
          call == EffectCallOf(effect)
          written == IF call.hasDeps THEN SelectSeq(call.deps, LAMBDA el : el # NonIdent) ELSE <<>>
          events == IF call.hasFn THEN call.events ELSE <<>>
      IN  /\ NoRepetition(DependencyNames(effect))
          /\ DependencyNames(effect) = FirstOccurrences(written)
          /\ NoRepetition(effect.setters)
          /\ effect.setters
               = FirstOccurrences(Flatten([k \in 1..Len(events) |-> EffectSetterOf(events[k])]))
          /\ NoRepetition(effect.refs)
          /\ effect.refs = FirstOccurrences(Flatten([k \in 1..Len(events) |-> RefOf(events[k])]))

\* C22: in every layout assembled from an analysis of the analyzer no two
\* edges have the same id.
C22_EdgeIdsUnique ==
  LayoutOfSource =>
    \A i, j \in 1..Len(Edges) : Edges[i].id = Edges[j].id => i = j

\* C23: in every layout any two distinct nodes have different centre
\* coordinates (x, y).
C23_NodePositionsDistinct ==
  Built =>
    \A n, m \in 1..Len(Nodes) :
      (Nodes[n].x = Nodes[m].x /\ Nodes[n].y = Nodes[m].y) => n = m

====
